---- MODULE Spec2Model ----
(***************************************************************************)
(* Spotiflow (src/spotiflow.py): main() retrieves the tracks of a chosen   *)
(* playlist, stores their metadata and audio features in two dicts,       *)
(* orders the track ids with the greedy nearest-neighbour walk of         *)
(* order_tracks() and, when the user agrees, writes the order to a new    *)
(* playlist with create_new_playlist().                                   *)
(*                                                                         *)
(* A Python dict is a sequence of <<key, value>> pairs in insertion order. *)
(* None is the string "None" (NoTrack, 0, where a track id is expected).   *)
(* Feature values are integers.  A number x that order_tracks compares is  *)
(* written as its code: x*x for a norm x >= 0, and -1 for the sentinel -1. *)
(* The code is strictly increasing on these numbers, so ==, > and the      *)
(* minimum are those of the numbers themselves, and every norm is exact.   *)
(***************************************************************************)
EXTENDS Integers, Sequences, FiniteSets

\* ---------------------------------------------------------------- bounds
NumIds == 3          \* distinct track ids the playlist service can return
MaxTracks == 3       \* items in the retrieved playlist

None == "None"
TrackIds == 1..NumIds
\* track['track']['name'] and ['artists'][0]['name'] of the track with an id:
\* the service's catalogue gives one name and one artist to an id.
TrackMeta(track_id) == << <<"name", track_id>>, <<"artist", track_id>> >>
FeaturePoints == {<<0, 0>>, <<1, 0>>, <<0, 1>>, <<5, 0>>}  \* <<danceability, energy>>
BaseName == <<"Mix">>
ImprovedSuffix == <<"-", "Improved">>
ImprovedName == BaseName \o ImprovedSuffix
Answers == {"y", "n", "NO", "no"}

\* ------------------------------------------------------------ dict model
DictKeys(d) == [j \in 1..Len(d) |-> d[j][1]]

HasKey(d, k) == \E j \in 1..Len(d) : d[j][1] = k

DictGet(d, k) == d[CHOOSE j \in 1..Len(d) : d[j][1] = k][2]

\* d[k] = v : a present key keeps its position and takes the new value.
DictSet(d, k, v) ==
    IF HasKey(d, k)
    THEN [j \in 1..Len(d) |-> IF d[j][1] = k THEN <<k, v>> ELSE d[j]]
    ELSE Append(d, <<k, v>>)

DictDelKeep(d, k) == d

\* del d[k]
DictDel(d, k) == SelectSeq(d, LAMBDA kv : kv[1] # k)

KeyPos(d, k) == CHOOSE j \in 1..Len(d) : d[j][1] = k

\* ------------------------------------------------------ get_track_features
feature_filter == {"danceability", "energy", "instrumentalness", "loudness",
                   "speechiness", "tempo", "valence"}

\* An element of the list sp.audio_features answers: None, or a features
\* object given as the <<key, value>> pairs of the parsed JSON object, in
\* the order the service sends them.
NoFeatures == [is_none |-> TRUE, items |-> <<>>]

AudioFeatures(d, e) ==
    [is_none |-> FALSE,
     items |-> << <<"danceability", d>>, <<"energy", e>>, <<"key", 7>>,
                  <<"loudness", 0>>, <<"mode", 1>>, <<"speechiness", 0>>,
                  <<"instrumentalness", 0>>, <<"valence", 0>>, <<"tempo", 0>>,
                  <<"duration_ms", 9>> >>]

\* sp.audio_features([track_id]) answers a one-element list: the features
\* object, or None for a track the service has no features for.
AudioFeatureResults ==
    {<<NoFeatures>>} \cup {<<AudioFeatures(pt[1], pt[2])>> : pt \in FeaturePoints}

get_track_features(features) ==
    IF \E j \in 1..Len(features) : features[j].is_none
    THEN <<>>
    ELSE LET kept == SelectSeq(features[1].items, LAMBDA kv : kv[1] \in feature_filter)
         IN  [j \in 1..Len(kept) |-> kept[j][2]]

\* ------------------------------------------------------------ get_distance
RECURSIVE SumSq(_)
SumSq(s) == IF s = <<>> THEN 0 ELSE Head(s) * Head(s) + SumSq(Tail(s))

\* a - b on one-dimensional arrays: equal lengths subtract element-wise, a
\* length-1 array is stretched to the other's length, anything else raises.
ArraySub(a, b) ==
    IF Len(a) = Len(b) \/ Len(a) = 1 \/ Len(b) = 1
    THEN LET n == IF Len(a) = 1 THEN Len(b) ELSE Len(a)
         IN  [raised |-> None,
              value |-> [j \in 1..n |-> (IF Len(a) = 1 THEN a[1] ELSE a[j])
                                        - (IF Len(b) = 1 THEN b[1] ELSE b[j])]]
    ELSE [raised |-> "ValueError", value |-> <<>>]

\* np.linalg.norm(a - b): value is the code of the norm, the sum of squares.
get_distance(a, b) ==
    LET diff == ArraySub(a, b)
    IN  IF diff.raised # None
        THEN [raised |-> diff.raised, value |-> 0]
        ELSE [raised |-> None, value |-> SumSq(diff.value)]

\* ------------------------------------------------------------ order_tracks
NoTrack == 0

LastKey(d) == d[Len(d)][1]

\* list(remaining.keys())[0]
FirstKey(d) == d[1][1]

IsNewMinFarthest(min_distance, distance) == min_distance = -1 \/ min_distance < distance

IsNewMinLast(min_distance, distance) == min_distance = -1 \/ min_distance >= distance

\* The test of line 66 on the running minimum and the candidate's distance.
IsNewMin(min_distance, distance) == min_distance = -1 \/ min_distance > distance

\* range(len(remaining)): the number of iterations, fixed before the loop.
RangeLen(rem) == Len(rem)

\* Lines 59-68 from the j-th key of remaining on: the scan stops at the first
\* get_distance that raises.  log collects the calls made, as
\* [a_len, b_len, raised].
RECURSIVE FindMin(_, _, _, _, _, _, _)
FindMin(rem, j, cur, features, min_distance, min_track, log) ==
    IF j > Len(rem)
    THEN [raised |-> None, min_distance |-> min_distance,
          min_track |-> min_track, log |-> log]
    ELSE LET track == rem[j][1]
             a == DictGet(features, cur)
             b == DictGet(features, track)
             distance == get_distance(a, b)
             log2 == log \cup {[a_len |-> Len(a), b_len |-> Len(b),
                                raised |-> distance.raised]}
         IN  IF distance.raised # None
             THEN [raised |-> distance.raised, min_distance |-> min_distance,
                   min_track |-> min_track, log |-> log2]
             ELSE IF IsNewMin(min_distance, distance.value)
                  THEN FindMin(rem, j + 1, cur, features, distance.value, track, log2)
                  ELSE FindMin(rem, j + 1, cur, features, min_distance, min_track, log2)

\* ----------------------------------------------------- create_new_playlist
\* The user's playlists at the service, in the order user_playlists lists
\* them: records [id, name, added], added being the track ids that
\* user_playlist_add_tracks has put into the playlist during the run.
InitialListings ==
    {<<>>, <<BaseName>>, <<BaseName, ImprovedName>>, <<ImprovedName, BaseName>>}

Listing(names) == [j \in 1..Len(names) |-> [id |-> j, name |-> names[j], added |-> <<>>]]

InsertAt(s, p, e) == SubSeq(s, 1, p - 1) \o <<e>> \o SubSeq(s, p, Len(s))

\* Lines 24-29: the id of the LAST listed playlist with the name, or None (0).
RECURSIVE FindPlaylist(_, _, _, _)
FindPlaylist(items, j, name, new_playlist_id) ==
    IF j > Len(items) THEN new_playlist_id
    ELSE FindPlaylist(items, j + 1, name,
                      IF items[j].name = name THEN items[j].id ELSE new_playlist_id)

\* user_playlist_add_tracks(username, new_playlist_id, tracklist)
AddTracks(listing, new_playlist_id, tracklist) ==
    [j \in 1..Len(listing) |->
        IF listing[j].id = new_playlist_id
        THEN [listing[j] EXCEPT !.added = @ \o tracklist]
        ELSE listing[j]]

\* create_new_playlist with the new playlist listed at position p.  The
\* listing is taken whole: the user has fewer playlists than one page of
\* user_playlists holds.
create_new_playlist(listing, p, name, tracklist) ==
    LET created == [id |-> Len(listing) + 1, name |-> name, added |-> <<>>]
        items == InsertAt(listing, p, created)
        new_playlist_id == FindPlaylist(items, 1, name, 0)
    IN  IF new_playlist_id # 0
        THEN AddTracks(items, new_playlist_id, tracklist)
        ELSE items

Lower(s) == CASE s = "NO" -> "no" [] OTHER -> s

\* ------------------------------------------------------------------ state
VARIABLES
    pc,              \* position in main()
    remote,          \* the user's playlists at the service, in listing order
    playlist_name,   \* main: name of the chosen playlist
    retrieved,       \* items of playlist_result consumed by the loop of line 256
    playlist,        \* main: dict track id -> [name, artist]
    track_features,  \* main: dict track id -> list of feature values
    remaining,       \* order_tracks: dict of the tracks not yet placed
    solution,        \* order_tracks: list of the ids placed
    current,         \* order_tracks: id placed last
    loop_n,          \* order_tracks: len(remaining) taken by range() at line 58
    i,               \* order_tracks: iterations of the loop of line 58 done
    dist_log,        \* get_distance calls of the latest scan (lines 63-68)
    new_tracklist,   \* main: the list order_tracks returned
    created_id,      \* id of the playlist user_playlist_create made (0: none)
    error            \* exception that ended the run, or None

vars == <<pc, remote, playlist_name, retrieved, playlist, track_features,
          remaining, solution, current, loop_n, i, dist_log, new_tracklist,
          created_id, error>>

orderVars == <<remaining, solution, current, loop_n, i, dist_log>>

Init ==
    /\ pc = "pick"
    /\ \E names \in InitialListings : remote = Listing(names)
    /\ playlist_name = <<>>
    /\ retrieved = 0
    /\ playlist = <<>>
    /\ track_features = <<>>
    /\ remaining = <<>>
    /\ solution = <<>>
    /\ current = NoTrack
    /\ loop_n = 0
    /\ i = 0
    /\ dist_log = {}
    /\ new_tracklist = <<>>
    /\ created_id = 0
    /\ error = None

\* pick_playlist: the number typed is checked against the listing.
PickPlaylist ==
    /\ pc = "pick"
    /\ \E chosen_playlist \in 0..(Len(remote) + 1) :
          IF chosen_playlist > Len(remote) \/ chosen_playlist < 1
          THEN /\ pc' = "exited"
               /\ error' = "SystemExit"
               /\ UNCHANGED playlist_name
          ELSE /\ pc' = "retrieve"
               /\ playlist_name' = remote[chosen_playlist].name
               /\ UNCHANGED error
    /\ UNCHANGED <<remote, retrieved, playlist, track_features, orderVars,
                   new_tracklist, created_id>>

\* One pass of the loop of lines 256-266 over the next retrieved item.
IngestTrack ==
    /\ pc = "retrieve"
    /\ retrieved < MaxTracks
    /\ \E track_id \in TrackIds, features \in AudioFeatureResults :
          /\ playlist' = DictSet(playlist, track_id, TrackMeta(track_id))
          /\ track_features' = DictSet(track_features, track_id,
                                       get_track_features(features))
    /\ retrieved' = retrieved + 1
    /\ UNCHANGED <<pc, remote, playlist_name, orderVars, new_tracklist,
                   created_id, error>>

\* playlist_result is exhausted: main goes on to order_tracks.
FinishIngest ==
    /\ pc = "retrieve"
    /\ pc' = "order"
    /\ UNCHANGED <<remote, playlist_name, retrieved, playlist, track_features,
                   orderVars, new_tracklist, created_id, error>>

\* order_tracks, lines 48-58: copy, take the first key as the start.
OrderStart ==
    /\ pc = "order"
    /\ IF playlist = <<>>
       THEN /\ pc' = "crashed"
            /\ error' = "IndexError"
            /\ UNCHANGED <<solution, current, loop_n>>
            /\ remaining' = playlist
       ELSE /\ pc' = "loop"
            /\ current' = FirstKey(playlist)
            /\ remaining' = DictDel(playlist, FirstKey(playlist))
            /\ solution' = <<FirstKey(playlist)>>
            /\ loop_n' = RangeLen(DictDel(playlist, FirstKey(playlist)))
            /\ UNCHANGED error
    /\ UNCHANGED <<remote, playlist_name, retrieved, playlist, track_features,
                   i, dist_log, new_tracklist, created_id>>

\* One iteration of the loop of line 58 (lines 59-73).
LoopIteration ==
    /\ pc = "loop"
    /\ i < loop_n
    /\ LET found == FindMin(remaining, 1, current, track_features, -1, NoTrack, {})
       IN  /\ dist_log' = found.log
           /\ IF found.raised # None
              THEN /\ pc' = "crashed"
                   /\ error' = found.raised
                   /\ UNCHANGED <<remaining, solution, current, i>>
              ELSE IF ~HasKey(remaining, found.min_track)
              THEN /\ pc' = "crashed"
                   /\ error' = "KeyError"
                   /\ current' = found.min_track
                   /\ solution' = Append(solution, found.min_track)
                   /\ UNCHANGED <<remaining, i>>
              ELSE /\ current' = found.min_track
                   /\ solution' = Append(solution, found.min_track)
                   /\ remaining' = DictDel(remaining, found.min_track)
                   /\ i' = i + 1
                   /\ UNCHANGED <<pc, error>>
    /\ UNCHANGED <<remote, playlist_name, retrieved, playlist, track_features,
                   loop_n, new_tracklist, created_id>>

\* Line 74 and line 274: the loop is over, main receives the list.
OrderReturn ==
    /\ pc = "loop"
    /\ i >= loop_n
    /\ new_tracklist' = solution
    /\ pc' = "prompt"
    /\ UNCHANGED <<remote, playlist_name, retrieved, playlist, track_features,
                   orderVars, created_id, error>>

\* Lines 277-284: the prompt and, unless declined, create_new_playlist.  The
\* position at which the service lists the new playlist is the service's.
Prompt ==
    /\ pc = "prompt"
    /\ \E should_create \in Answers :
          IF Lower(should_create) # "n" /\ Lower(should_create) # "no"
          THEN \E p \in 1..(Len(remote) + 1) :
                  /\ remote' = create_new_playlist(remote, p,
                                   playlist_name \o ImprovedSuffix, new_tracklist)
                  /\ created_id' = Len(remote) + 1
          ELSE UNCHANGED <<remote, created_id>>
    /\ pc' = "done"
    /\ UNCHANGED <<playlist_name, retrieved, playlist, track_features,
                   orderVars, new_tracklist, error>>

Next ==
    \/ PickPlaylist
    \/ IngestTrack
    \/ FinishIngest
    \/ OrderStart
    \/ LoopIteration
    \/ OrderReturn
    \/ Prompt

Spec == Init /\ [][Next]_vars

\* ----------------------------------------------------------------- claims
Returned == pc \in {"prompt", "done"}

Keys == {playlist[j][1] : j \in 1..Len(playlist)}

Features(k) == DictGet(track_features, k)

AllSeven == \A j \in 1..Len(track_features) : Len(track_features[j][2]) = 7

Absent == {k \in Keys : Features(k) = <<>>}

Dist(k1, k2) == get_distance(Features(k1), Features(k2)).value

Placed(tour, n) == {tour[j] : j \in 1..n}

VecA == <<0, 0, 0, 0, 0, 0, 0>>
VecB == <<1, 0, 0, 0, 0, 0, 0>>
VecC == <<5, 0, 0, 0, 0, 0, 0>>

\* C1: with n >= 1 tracks that all have 7 feature values, order_tracks
\* returns (it does not raise), and the list it returns holds every key of
\* the playlist exactly once and nothing else.
C1_TourIsPermutation ==
    (AllSeven /\ playlist # <<>>) =>
        /\ pc # "crashed"
        /\ Returned =>
              /\ Len(new_tracklist) = Len(playlist)
              /\ \A j \in 1..Len(new_tracklist) : new_tracklist[j] \in Keys
              /\ \A k \in Keys :
                    Cardinality({j \in 1..Len(new_tracklist) : new_tracklist[j] = k}) = 1

\* Three tracks with features were ordered, and not in insertion order.
C1_Witness ==
    /\ Returned /\ AllSeven /\ Len(playlist) = 3
    /\ new_tracklist # DictKeys(playlist)

\* C2: in the returned list every track from the second on is at minimum
\* distance from its predecessor among the tracks not placed before it; and
\* features A, B, C inserted in this order give the insertion order back.
C2_GreedyNearest ==
    (Returned /\ AllSeven) =>
        /\ \A k \in 2..Len(new_tracklist) :
              \A t \in Keys \ Placed(new_tracklist, k - 1) :
                 Dist(new_tracklist[k - 1], new_tracklist[k]) <= Dist(new_tracklist[k - 1], t)
        /\ (Len(track_features) = 3 /\ track_features[1][2] = VecA
              /\ track_features[2][2] = VecB /\ track_features[3][2] = VecC)
           => new_tracklist = DictKeys(playlist)

\* A nearer track was placed ahead of a farther one inserted before it.
C2_Witness ==
    /\ Returned /\ AllSeven /\ Len(playlist) = 3
    /\ new_tracklist[2] = playlist[3][1]
    /\ Dist(new_tracklist[1], new_tracklist[2]) < Dist(new_tracklist[1], new_tracklist[3])

\* C3: in every iteration, of the remaining tracks at the minimum distance
\* from the current track the one first in the iteration order of remaining
\* is the one appended.
C3_TieBreakFirst ==
    [][(pc = "loop" /\ i' = i + 1 /\ AllSeven) =>
          \A j \in 1..Len(remaining) :
             (remaining[j][1] # current'
                /\ Dist(current, remaining[j][1]) = Dist(current, current'))
             => KeyPos(remaining, current') < j]_vars

\* An iteration has just chosen between two tracks with different features
\* at the same distance from the track before.
C3_Witness ==
    /\ pc = "loop" /\ AllSeven /\ Len(solution) >= 2 /\ remaining # <<>>
    /\ \E j \in 1..Len(remaining) :
          /\ Features(remaining[j][1]) # Features(current)
          /\ Dist(solution[Len(solution) - 1], remaining[j][1])
               = Dist(solution[Len(solution) - 1], current)

\* C4: the first element of the list is the first key inserted into the
\* playlist, whatever the features are.
C4_SeedIsFirstInserted ==
    /\ solution # <<>> => solution[1] = playlist[1][1]
    /\ Returned => (new_tracklist # <<>> /\ new_tracklist[1] = playlist[1][1])

\* A list was returned whose start is neither the smallest id nor a track
\* with features.
C4_Witness ==
    /\ Returned /\ Len(playlist) = 3
    /\ new_tracklist[1] = playlist[1][1]
    /\ playlist[1][1] # 1
    /\ Absent # {}

\* C5: with a track whose features are absent, order_tracks either returns a
\* list with every absent-feature track after all the others, in insertion
\* order, or fails with MissingFeatures; it fails in no other way and takes
\* no distance of an absent vector.
C5_AbsentFeaturesPolicy ==
    (Absent # {} /\ pc \in {"loop", "prompt", "done", "crashed"}) =>
        /\ pc = "crashed" => error = "MissingFeatures"
        /\ \A c \in dist_log : c.raised = None => (c.a_len # 0 /\ c.b_len # 0)
        /\ Returned =>
              \A p, q \in 1..Len(new_tracklist) :
                 (p < q /\ new_tracklist[p] \in Absent) =>
                    /\ new_tracklist[q] \in Absent
                    /\ KeyPos(playlist, new_tracklist[p]) < KeyPos(playlist, new_tracklist[q])

\* C6: on an empty playlist order_tracks returns the empty list or fails with
\* EmptyPlaylist, and ends in no other failure.
C6_EmptyPlaylistOutcome ==
    (playlist = <<>> /\ pc \in {"loop", "prompt", "done", "crashed"}) =>
        \/ Returned /\ new_tracklist = <<>>
        \/ pc = "crashed" /\ error = "EmptyPlaylist"

\* C7: for a playlist of n >= 1 tracks the loop of order_tracks runs n - 1
\* times and then stops with remaining empty and a list of length n (it does
\* not end before that); for n = 1 it runs zero times and the list is that
\* one id.
C7_LoopRunsNMinusOne ==
    (playlist # <<>> /\ pc \in {"loop", "prompt", "done", "crashed"}) =>
        /\ pc # "crashed"
        /\ pc = "loop" => (i <= loop_n /\ i + Len(remaining) = Len(playlist) - 1)
        /\ Returned =>
              /\ i = Len(playlist) - 1
              /\ remaining = <<>>
              /\ Len(new_tracklist) = Len(playlist)
              /\ Len(playlist) = 1 => (i = 0 /\ new_tracklist = <<playlist[1][1]>>)

\* C8: get_distance fails (whatever the failure is called) when a vector has
\* a length other than 7, and answers a number only for two 7-vectors.
C8_DistanceNeedsSevenAxes ==
    \A c \in dist_log : (c.a_len # 7 \/ c.b_len # 7) => c.raised # None

\* C9: storing a track whose id is already in the playlist fails with
\* DuplicateTrack, and no stored metadata or features are ever replaced.
C9_NoOverwriteOnDuplicate ==
    [][(pc = "retrieve" /\ retrieved' = retrieved + 1) =>
          /\ \A j \in 1..Len(playlist) :
                playlist'[j] = playlist[j] /\ track_features'[j] = track_features[j]
          /\ Len(playlist') = Len(playlist) => error' = "DuplicateTrack"]_vars

\* C10: create_new_playlist puts the whole list, in order, into the playlist
\* it created, and puts tracks into no playlist that was there before.
C10_TracksGoToCreatedPlaylist ==
    (pc = "done" /\ created_id # 0) =>
        \A j \in 1..Len(remote) :
           remote[j].added = (IF remote[j].id = created_id THEN new_tracklist ELSE <<>>)

====
